---- MODULE Spec2Model ----
(***************************************************************************)
(* Resilience layer of the API gateway: the per-backend CircuitBreaker     *)
(* (api_gateway/circuit_breaker.py), the sliding-window RateLimiter        *)
(* (api_gateway/rate_limiter.py) and the route handlers that compose them  *)
(* (api_gateway/app.py, api_gateway/auth_middleware.py).                   *)
(*                                                                         *)
(* Three specifications share the definitions of the code:                 *)
(*   SpecCB  concurrent callers of one CircuitBreaker.call                 *)
(*   SpecRL  callers of one RateLimiter.is_allowed                         *)
(*   Spec    gateway requests through auth, rate limit, breaker, backend   *)
(***************************************************************************)
EXTENDS Integers, Sequences, FiniteSets, TLC

VARIABLES
    now,        \* the clock, datetime.now(), in seconds
    cb,         \* the CircuitBreaker of SpecCB
    pc,         \* where each caller of the breaker is
    op_calls,   \* how many times the wrapped operation has been started
    rl,         \* the RateLimiter of SpecRL
    unswept,    \* a RateLimiter that gets the is_allowed calls of rl and on
                \* which cleanup_old_entries is never called
    admitted,   \* history: per identifier, the times at which rl admitted a
                \* request, as far as they are newer than now - window_seconds
    circuit,    \* the gateway's breakers, users_circuit and orders_circuit
    limiter,    \* the gateway's limiters
    req,        \* where each request-handling thread of the gateway is
    last        \* what the most recent step handed back to its caller

vars == <<now, cb, pc, op_calls, rl, unswept, admitted, circuit, limiter, req,
          last>>

\* the limiter of SpecRL, its twin and its history
rlvars == <<rl, unswept, admitted>>

\* the state of the gateway, which SpecCB and SpecRL leave alone
gwvars == <<circuit, limiter, req>>

\* the state of the stand-alone breaker and of its callers
cbvars == <<cb, pc, op_calls>>

----------------------------------------------------------------------------
(* Bounds of the model *)

\* threads calling the same breaker
NumCallers == 3
\* calls entered on one breaker (caps total_requests)
MaxCalls == 8
\* last instant of the model's clock, in seconds
MaxTime == 30
\* threads of SpecOnce
MThreads == 6
\* operations started on the breaker of SpecRecover (caps op_calls)
MaxOps == 9
\* max_requests and window_seconds of the limiter of SpecRL
RLMaxRequests == 3
RLWindow == 3
\* last instant of the clock of SpecRL
RLMaxTime == 8
\* request-handling threads of the gateway
NumThreads == 1
\* calls of circuit.call the gateway's requests make, both breakers together
MaxRequests == 7
\* last instant of the clock of Spec
GWMaxTime == 11
\* max_requests of auth_limiter and of order_creation_limiter, scaled down
\* from the 10 and 20 of rate_limiter.py so that a quota is used up within
\* MaxRequests requests
AuthQuota == 2
OrderQuota == 2

----------------------------------------------------------------------------
(* Program constants: CircuitBreaker.__init__ defaults and app.py:36 *)

min_requests == 5
success_threshold == 2
reset_timeout == 10
\* error_threshold = 0.5, kept as the fraction 1/2
error_threshold_num == 1
error_threshold_den == 2

\* window_seconds of auth_limiter and order_creation_limiter
limiter_window == 60

\* last_failure_time = None
None == -1

Callers == 1..NumCallers

\* what a wrapped operation can do: return a value or raise an exception
Returned(v) == [raised |-> FALSE, value |-> v]
Raised(e) == [raised |-> TRUE, value |-> e]

CircuitOpenError == Raised("Circuit breaker is open")
\* datetime.now() - None raises TypeError inside call
NoneTypeError == Raised("TypeError")

\* outcomes of the stub operation the callers of SpecCB wrap
StubResults == {Returned("result"), Raised("ConnectionError"), Raised("Timeout")}

----------------------------------------------------------------------------
(* CircuitBreaker *)

\* CircuitBreaker.__init__ at time t
NewBreaker(t) ==
    [state |-> "closed",
     failure_count |-> 0,
     success_count |-> 0,
     half_open_success |-> 0,
     last_failure_time |-> None,
     total_requests |-> 0,
     total_failures |-> 0,
     last_state_change |-> t]

\* variant: the elapsed time is compared with the call timeout (3 s)
ResetElapsedCallTimeout(b, t) == t - b.last_failure_time > 3

\* variant: the operands of the subtraction are swapped
ResetElapsedSwapped(b, t) == b.last_failure_time - t > reset_timeout

\* timedelta comparison of line 60
ResetElapsed(b, t) == t - b.last_failure_time > reset_timeout

\* variant: the move to half_open keeps the old half_open_success
CallEntryKeepsProbeCount(b, t) ==
    LET b1 == [b EXCEPT !.total_requests = @ + 1] IN
    IF b1.state = "open"
    THEN IF t - b1.last_failure_time > reset_timeout
         THEN [cb |-> [b1 EXCEPT !.state = "half_open", !.last_state_change = t],
               raised |-> Returned("none"), admitted |-> TRUE]
         ELSE [cb |-> b1, raised |-> CircuitOpenError, admitted |-> FALSE]
    ELSE [cb |-> b1, raised |-> Returned("none"), admitted |-> TRUE]

\* variant: self.lock is held from the entry of call until func has
\* finished, so a caller whose func is running holds it
LockedAcrossFunc == {"calling"}

\* The positions between two steps at which a caller holds self.lock: none.
\* A caller at "calling" is at line 79, func(*args, **kwargs), after the
\* `with self.lock` block of lines 55-75 has been left and before those of
\* lines 82 and 107 are entered.
LockedPositions == {}

\* self.lock can be acquired by c: no other caller holds it
LockAvailable(positions, c) ==
    \A d \in DOMAIN positions \ {c} : positions[d] \notin LockedPositions

\* variant: a call rejected while the breaker is open is not counted in
\* total_requests
CallEntryCountsAdmittedOnly(b, t) ==
    IF b.state = "open"
    THEN IF t - b.last_failure_time > reset_timeout
         THEN [cb |-> [b EXCEPT !.total_requests = @ + 1,
                                !.state = "half_open",
                                !.half_open_success = 0,
                                !.last_state_change = t],
               raised |-> Returned("none"), admitted |-> TRUE]
         ELSE [cb |-> b, raised |-> CircuitOpenError, admitted |-> FALSE]
    ELSE [cb |-> [b EXCEPT !.total_requests = @ + 1],
          raised |-> Returned("none"), admitted |-> TRUE]

\* variant: the move to half_open starts a new window of failure_count and
\* success_count
CallEntryClearsWindow(b, t) ==
    LET b1 == [b EXCEPT !.total_requests = @ + 1] IN
    IF b1.state = "open"
    THEN IF t - b1.last_failure_time > reset_timeout
         THEN [cb |-> [b1 EXCEPT !.state = "half_open",
                                 !.half_open_success = 0,
                                 !.failure_count = 0,
                                 !.success_count = 0,
                                 !.last_state_change = t],
               raised |-> Returned("none"), admitted |-> TRUE]
         ELSE [cb |-> b1, raised |-> CircuitOpenError, admitted |-> FALSE]
    ELSE [cb |-> b1, raised |-> Returned("none"), admitted |-> TRUE]

\* variant: a call rejected by the open breaker restarts the timeout
CallEntryRejectionRestartsTimeout(b, t) ==
    LET b1 == [b EXCEPT !.total_requests = @ + 1] IN
    IF b1.state = "open"
    THEN IF t - b1.last_failure_time > reset_timeout
         THEN [cb |-> [b1 EXCEPT !.state = "half_open",
                                 !.half_open_success = 0,
                                 !.last_state_change = t],
               raised |-> Returned("none"), admitted |-> TRUE]
         ELSE [cb |-> [b1 EXCEPT !.last_failure_time = t],
               raised |-> CircuitOpenError, admitted |-> FALSE]
    ELSE [cb |-> b1, raised |-> Returned("none"), admitted |-> TRUE]

\* The first locked block of call (lines 55-75): count the request and, when
\* the breaker is open, either move to half_open or raise.
CallEntry(b, t) ==
    LET b1 == [b EXCEPT !.total_requests = @ + 1] IN
    IF b1.state = "open"
    THEN IF b1.last_failure_time = None
         THEN [cb |-> b1, raised |-> NoneTypeError, admitted |-> FALSE]
         ELSE IF ResetElapsed(b1, t)
              THEN [cb |-> [b1 EXCEPT !.state = "half_open",
                                      !.half_open_success = 0,
                                      !.last_state_change = t],
                    raised |-> Returned("none"), admitted |-> TRUE]
              ELSE [cb |-> b1, raised |-> CircuitOpenError, admitted |-> FALSE]
    ELSE [cb |-> b1, raised |-> Returned("none"), admitted |-> TRUE]

\* variant: a success is not counted once the breaker has opened
RecordSuccessIgnoredWhenOpen(b, t) ==
    IF b.state = "open"
    THEN b
    ELSE LET b1 == [b EXCEPT !.success_count = @ + 1] IN
         IF b1.state = "half_open"
         THEN LET b2 == [b1 EXCEPT !.half_open_success = @ + 1] IN
              IF b2.half_open_success >= success_threshold
              THEN [b2 EXCEPT !.state = "closed",
                              !.failure_count = 0,
                              !.success_count = 0,
                              !.last_state_change = t]
              ELSE b2
         ELSE b1

\* variant: closing the breaker leaves failure_count as it was
RecordSuccessKeepsFailures(b, t) ==
    LET b1 == [b EXCEPT !.success_count = @ + 1] IN
    IF b1.state = "half_open"
    THEN LET b2 == [b1 EXCEPT !.half_open_success = @ + 1] IN
         IF b2.half_open_success >= success_threshold
         THEN [b2 EXCEPT !.state = "closed",
                         !.success_count = 0,
                         !.last_state_change = t]
         ELSE b2
    ELSE b1

\* variant: a success closes the breaker from any state but closed
RecordSuccessClosesWhenNotClosed(b, t) ==
    LET b1 == [b EXCEPT !.success_count = @ + 1] IN
    IF b1.state # "closed"
    THEN LET b2 == [b1 EXCEPT !.half_open_success = @ + 1] IN
         IF b2.half_open_success >= success_threshold
         THEN [b2 EXCEPT !.state = "closed",
                         !.failure_count = 0,
                         !.success_count = 0,
                         !.last_state_change = t]
         ELSE b2
    ELSE b1

\* variant: the error rate is evaluated after a success too
RecordSuccessTrips(b, t) ==
    LET b1 == [b EXCEPT !.success_count = @ + 1] IN
    IF b1.state = "half_open"
    THEN LET b2 == [b1 EXCEPT !.half_open_success = @ + 1] IN
         IF b2.half_open_success >= success_threshold
         THEN [b2 EXCEPT !.state = "closed",
                         !.failure_count = 0,
                         !.success_count = 0,
                         !.last_state_change = t]
         ELSE b2
    ELSE IF b1.state = "closed"
         THEN LET total == b1.failure_count + b1.success_count IN
              IF /\ total >= min_requests
                 /\ b1.failure_count * error_threshold_den
                       >= error_threshold_num * total
              THEN [b1 EXCEPT !.state = "open", !.last_state_change = t]
              ELSE b1
         ELSE b1

\* variant: the breaker closes one success early,
\* half_open_success >= success_threshold - 1
RecordSuccessClosesEarly(b, t) ==
    LET b1 == [b EXCEPT !.success_count = @ + 1] IN
    IF b1.state = "half_open"
    THEN LET b2 == [b1 EXCEPT !.half_open_success = @ + 1] IN
         IF b2.half_open_success >= success_threshold - 1
         THEN [b2 EXCEPT !.state = "closed",
                         !.failure_count = 0,
                         !.success_count = 0,
                         !.last_state_change = t]
         ELSE b2
    ELSE b1

\* The locked block after func returned (lines 82-101).
RecordSuccess(b, t) ==
    LET b1 == [b EXCEPT !.success_count = @ + 1] IN
    IF b1.state = "half_open"
    THEN LET b2 == [b1 EXCEPT !.half_open_success = @ + 1] IN
         IF b2.half_open_success >= success_threshold
         THEN [b2 EXCEPT !.state = "closed",
                         !.failure_count = 0,
                         !.success_count = 0,
                         !.last_state_change = t]
         ELSE b2
    ELSE b1

\* variant: error_rate > self.error_threshold
ErrorRateExceeded(failures, total) ==
    failures * error_threshold_den > error_threshold_num * total

\* error_rate >= self.error_threshold (lines 128-130), total > 0
ErrorRateReached(failures, total) ==
    failures * error_threshold_den >= error_threshold_num * total

\* variant: a failure in half_open is only counted, the breaker stays half_open
RecordFailureNoReopen(b, t) ==
    LET b1 == [b EXCEPT !.failure_count = @ + 1,
                        !.total_failures = @ + 1,
                        !.last_failure_time = t] IN
    IF b1.state = "closed"
    THEN LET total == b1.failure_count + b1.success_count IN
         IF total >= min_requests /\ ErrorRateReached(b1.failure_count, total)
         THEN [b1 EXCEPT !.state = "open", !.last_state_change = t]
         ELSE b1
    ELSE b1

\* variant: last_failure_time is not written
RecordFailureNoTimestamp(b, t) ==
    LET b1 == [b EXCEPT !.failure_count = @ + 1,
                        !.total_failures = @ + 1] IN
    IF b1.state = "half_open"
    THEN [b1 EXCEPT !.state = "open", !.last_state_change = t]
    ELSE IF b1.state = "closed"
         THEN LET total == b1.failure_count + b1.success_count IN
              IF /\ total >= min_requests
                 /\ b1.failure_count * error_threshold_den
                       >= error_threshold_num * total
              THEN [b1 EXCEPT !.state = "open", !.last_state_change = t]
              ELSE b1
         ELSE b1

\* variant: a failure recorded while the breaker is open leaves
\* last_failure_time as it was
RecordFailureKeepsStampWhenOpen(b, t) ==
    LET b1 == [b EXCEPT !.failure_count = @ + 1,
                        !.total_failures = @ + 1,
                        !.last_failure_time =
                            IF b.state = "open" THEN @ ELSE t] IN
    IF b1.state = "half_open"
    THEN [b1 EXCEPT !.state = "open", !.last_state_change = t]
    ELSE IF b1.state = "closed"
         THEN LET total == b1.failure_count + b1.success_count IN
              IF /\ total >= min_requests
                 /\ b1.failure_count * error_threshold_den
                       >= error_threshold_num * total
              THEN [b1 EXCEPT !.state = "open", !.last_state_change = t]
              ELSE b1
         ELSE b1

\* The locked block after func raised (lines 107-141).
RecordFailure(b, t) ==
    LET b1 == [b EXCEPT !.failure_count = @ + 1,
                        !.total_failures = @ + 1,
                        !.last_failure_time = t] IN
    IF b1.state = "half_open"
    THEN [b1 EXCEPT !.state = "open", !.last_state_change = t]
    ELSE IF b1.state = "closed"
         THEN LET total == b1.failure_count + b1.success_count IN
              IF total >= min_requests /\ ErrorRateReached(b1.failure_count, total)
              THEN [b1 EXCEPT !.state = "open", !.last_state_change = t]
              ELSE b1
         ELSE b1

\* variant: a failure that trips the breaker is reported as circuit-open
CallOutcomeMasked(b, res) ==
    IF res.raised /\ b.state = "open" THEN CircuitOpenError ELSE res

\* What call hands back once func has finished with res: `return result`
\* (line 103) or `raise e` (line 143).
CallOutcome(b, res) == res

\* Lines 78-143: func has finished with res at time t.
CallExit(b, t, res) ==
    LET b1 == IF res.raised THEN RecordFailure(b, t) ELSE RecordSuccess(b, t) IN
    [cb |-> b1, outcome |-> CallOutcome(b1, res)]

\* variant: reset also forgets the last failure
ResetBreakerForgetsFailure(b, t) ==
    [b EXCEPT !.state = "closed",
              !.failure_count = 0,
              !.success_count = 0,
              !.half_open_success = 0,
              !.last_failure_time = None,
              !.last_state_change = t]

\* CircuitBreaker.reset at time t
ResetBreaker(b, t) ==
    [b EXCEPT !.state = "closed",
              !.failure_count = 0,
              !.success_count = 0,
              !.half_open_success = 0,
              !.last_state_change = t]

\* CircuitBreaker.get_stats; error_rate as the pair <<failures, total>>
GetStats(b) ==
    LET total == b.failure_count + b.success_count IN
    [state |-> b.state,
     total_requests |-> b.total_requests,
     total_failures |-> b.total_failures,
     window_requests |-> total,
     window_failures |-> b.failure_count,
     window_successes |-> b.success_count,
     error_rate |-> IF total > 0 THEN <<b.failure_count, total>> ELSE <<0, 1>>,
     last_failure_time |-> b.last_failure_time,
     last_state_change |-> b.last_state_change]

----------------------------------------------------------------------------
(* RateLimiter *)

\* RateLimiter.__init__; requests is a defaultdict(list): only the identifiers
\* that have been looked up are keys
NewRateLimiter(m, w) ==
    [max_requests |-> m, window_seconds |-> w, requests |-> <<>>]

\* variant: [x for x in seq if x >= bound]
RECURSIVE NotOlderThan(_, _)
NotOlderThan(seq, bound) ==
    IF seq = <<>> THEN <<>>
    ELSE IF Head(seq) >= bound
         THEN <<Head(seq)>> \o NotOlderThan(Tail(seq), bound)
         ELSE NotOlderThan(Tail(seq), bound)

\* [x for x in seq if x > bound]
RECURSIVE NewerThan(_, _)
NewerThan(seq, bound) ==
    IF seq = <<>> THEN <<>>
    ELSE IF Head(seq) > bound
         THEN <<Head(seq)>> \o NewerThan(Tail(seq), bound)
         ELSE NewerThan(Tail(seq), bound)

\* self.requests[identifier] of a defaultdict(list)
Lookup(requests, identifier) ==
    IF identifier \in DOMAIN requests THEN requests[identifier] ELSE <<>>

\* variant: every identifier shares one list
StoreShared(requests, identifier, seq) ==
    [i \in DOMAIN requests \cup {identifier} |-> seq]

\* requests with requests[identifier] = seq
Store(requests, identifier, seq) ==
    [i \in DOMAIN requests \cup {identifier} |->
        IF i = identifier THEN seq ELSE requests[i]]

\* variant: the limit test is len(user_requests) > self.max_requests
IsAllowedOverfills(l, identifier, t) ==
    LET window_start == t - l.window_seconds
        user_requests == NewerThan(Lookup(l.requests, identifier), window_start)
    IN IF Len(user_requests) > l.max_requests
       THEN [limiter |-> [l EXCEPT !.requests =
                                     Store(@, identifier, user_requests)],
             allowed |-> FALSE,
             remaining |-> 0,
             reset_time |-> user_requests[1] + l.window_seconds]
       ELSE LET appended == Append(user_requests, t) IN
            [limiter |-> [l EXCEPT !.requests = Store(@, identifier, appended)],
             allowed |-> TRUE,
             remaining |-> l.max_requests - Len(appended),
             reset_time |-> t + l.window_seconds]

\* variant: remaining is computed before the current request is appended
IsAllowedCountsBeforeAppend(l, identifier, t) ==
    LET window_start == t - l.window_seconds
        user_requests == NewerThan(Lookup(l.requests, identifier), window_start)
    IN IF Len(user_requests) >= l.max_requests
       THEN [limiter |-> [l EXCEPT !.requests =
                                     Store(@, identifier, user_requests)],
             allowed |-> FALSE,
             remaining |-> 0,
             reset_time |-> user_requests[1] + l.window_seconds]
       ELSE LET appended == Append(user_requests, t) IN
            [limiter |-> [l EXCEPT !.requests = Store(@, identifier, appended)],
             allowed |-> TRUE,
             remaining |-> l.max_requests - Len(user_requests),
             reset_time |-> t + l.window_seconds]

\* variant: the new timestamp is put in front, user_requests.insert(0, now)
IsAllowedPrepends(l, identifier, t) ==
    LET window_start == t - l.window_seconds
        user_requests == NewerThan(Lookup(l.requests, identifier), window_start)
    IN IF Len(user_requests) >= l.max_requests
       THEN [limiter |-> [l EXCEPT !.requests =
                                     Store(@, identifier, user_requests)],
             allowed |-> FALSE,
             remaining |-> 0,
             reset_time |-> user_requests[1] + l.window_seconds]
       ELSE LET appended == <<t>> \o user_requests IN
            [limiter |-> [l EXCEPT !.requests = Store(@, identifier, appended)],
             allowed |-> TRUE,
             remaining |-> l.max_requests - Len(appended),
             reset_time |-> t + l.window_seconds]

\* variant: the window is one second short,
\* window_start = now - timedelta(seconds=self.window_seconds - 1)
IsAllowedShortWindow(l, identifier, t) ==
    LET window_start == t - (l.window_seconds - 1)
        user_requests == NewerThan(Lookup(l.requests, identifier), window_start)
    IN IF Len(user_requests) >= l.max_requests
       THEN [limiter |-> [l EXCEPT !.requests =
                                     Store(@, identifier, user_requests)],
             allowed |-> FALSE,
             remaining |-> 0,
             reset_time |-> user_requests[1] + l.window_seconds]
       ELSE LET appended == Append(user_requests, t) IN
            [limiter |-> [l EXCEPT !.requests = Store(@, identifier, appended)],
             allowed |-> TRUE,
             remaining |-> l.max_requests - Len(appended),
             reset_time |-> t + l.window_seconds]

\* variant: a rejected request is appended too
IsAllowedRecordsRejected(l, identifier, t) ==
    LET window_start == t - l.window_seconds
        user_requests == NewerThan(Lookup(l.requests, identifier), window_start)
        appended == Append(user_requests, t)
    IN IF Len(user_requests) >= l.max_requests
       THEN [limiter |-> [l EXCEPT !.requests = Store(@, identifier, appended)],
             allowed |-> FALSE,
             remaining |-> 0,
             reset_time |-> user_requests[1] + l.window_seconds]
       ELSE [limiter |-> [l EXCEPT !.requests = Store(@, identifier, appended)],
             allowed |-> TRUE,
             remaining |-> l.max_requests - Len(appended),
             reset_time |-> t + l.window_seconds]

\* RateLimiter.is_allowed(identifier) at time t (lines 34-58)
IsAllowed(l, identifier, t) ==
    LET window_start == t - l.window_seconds
        user_requests == NewerThan(Lookup(l.requests, identifier), window_start)
    IN IF Len(user_requests) >= l.max_requests
       THEN [limiter |-> [l EXCEPT !.requests =
                                     Store(@, identifier, user_requests)],
             allowed |-> FALSE,
             remaining |-> 0,
             reset_time |-> IF user_requests = <<>> THEN None
                            ELSE user_requests[1] + l.window_seconds]
       ELSE LET appended == Append(user_requests, t) IN
            [limiter |-> [l EXCEPT !.requests = Store(@, identifier, appended)],
             allowed |-> TRUE,
             remaining |-> l.max_requests - Len(appended),
             reset_time |-> t + l.window_seconds]

\* variant: the sweep uses the window of is_allowed, not twice that
CleanupOldEntriesOneWindow(l, t) ==
    LET window_start == t - l.window_seconds
        kept == {i \in DOMAIN l.requests :
                    NewerThan(l.requests[i], window_start) # <<>>}
    IN [l EXCEPT !.requests =
            [i \in kept |-> NewerThan(l.requests[i], window_start)]]

\* variant: the sweep keeps half a window, window_seconds / 2
CleanupOldEntriesHalfWindow(l, t) ==
    LET window_start == t - l.window_seconds \div 2
        kept == {i \in DOMAIN l.requests :
                    NewerThan(l.requests[i], window_start) # <<>>}
    IN [l EXCEPT !.requests =
            [i \in kept |-> NewerThan(l.requests[i], window_start)]]

\* RateLimiter.cleanup_old_entries at time t (lines 76-88)
CleanupOldEntries(l, t) ==
    LET window_start == t - l.window_seconds * 2
        kept == {i \in DOMAIN l.requests :
                    NewerThan(l.requests[i], window_start) # <<>>}
    IN [l EXCEPT !.requests =
            [i \in kept |-> NewerThan(l.requests[i], window_start)]]

----------------------------------------------------------------------------
(* The gateway: auth_middleware.py, rate_limiter.rate_limit, app.py *)

Backends == {"users_service", "orders_service"}

\* one handler of each shape app.py has: which decorators, which breaker,
\* which answer when the guarded call raises
Routes == {"register", "login", "get_user", "get_order", "create_order",
           "orders_status", "get_user_details"}

\* routes decorated with @require_auth
RequiresAuth(route) ==
    route \in {"get_user", "get_order", "create_order", "get_user_details"}

\* the limiter of the route's @rate_limit decorator
LimiterOf(route) ==
    IF route \in {"register", "login"} THEN "auth"
    ELSE IF route = "create_order" THEN "order_creation"
    ELSE "none"

\* variant: get_order goes through users_circuit
FirstBackendSharedCircuit(route) ==
    IF route \in {"register", "login", "get_user", "get_user_details",
                  "get_order"}
    THEN "users_service"
    ELSE "orders_service"

\* the breaker and service function of the handler's first guarded call
FirstBackend(route) ==
    IF route \in {"register", "login", "get_user", "get_user_details"}
    THEN "users_service"
    ELSE "orders_service"

\* the <user_id> segment of the paths /v1/users/<user_id> and
\* /v1/users/<user_id>/details; "register" stands for a segment that makes
\* the path begin with one of PUBLIC_ROUTES
UserIdSegments(route) ==
    IF route \in {"get_user", "get_user_details"} THEN {"7", "register"}
    ELSE {"-"}

\* is_public_route(request.path)
IsPublicRoute(route, segment) ==
    \/ route \in {"register", "login"}
    \/ route \in {"get_user", "get_user_details"} /\ segment = "register"

Credentials == {"missing", "invalid", "valid"}

\* require_auth.decorated_function (lines 53-70): `passed` says whether the
\* wrapped function runs, `user` whether request.user has been set
RequireAuth(route, segment, credential) ==
    IF IsPublicRoute(route, segment)
    THEN [passed |-> TRUE, user |-> FALSE]
    ELSE IF credential = "valid"
         THEN [passed |-> TRUE, user |-> TRUE]
         ELSE [passed |-> FALSE, user |-> FALSE]

\* RateLimiter.get_identifier of a request of `client`
GetIdentifier(user, client) ==
    IF user THEN <<"user", client>> ELSE <<"ip", client>>

\* variant: retry_after is the time since the reported reset instead of the
\* time until it
RateLimitRejectionSwapped(r, t) ==
    [status |-> 429, body |-> "RATE_LIMIT_EXCEEDED",
     retry_after |-> t - r.reset_time]

\* rate_limit.wrapped answering a request is_allowed has rejected at time t
\* (lines 116-131)
RateLimitRejection(r, t) ==
    [status |-> 429, body |-> "RATE_LIMIT_EXCEEDED",
     retry_after |-> r.reset_time - t]

\* what a backend answers: an HTTP status, or no answer at all
HttpReply(code) == [kind |-> "http", status |-> code]
NoAnswer(e) == [kind |-> e, status |-> 0]
NoReply == [kind |-> "none", status |-> 0]

BackendReplies ==
    {HttpReply(code) : code \in {200, 400, 401, 404, 500}}
        \cup {NoAnswer("ConnectionError"), NoAnswer("Timeout")}

\* variant: no special case for 404, raise_for_status sees every answer
CallServiceRaisesOn404(reply) ==
    IF reply.kind # "http"
    THEN [raised |-> TRUE, value |-> reply.kind, status |-> 0]
    ELSE IF reply.status >= 400
         THEN [raised |-> TRUE, value |-> "HTTPError", status |-> reply.status]
         ELSE [raised |-> FALSE, value |-> "json", status |-> reply.status]

\* call_users_service / call_orders_service (lines 39-67, 69-96):
\* (response.json(), status) for a 404 or a status below 400, HTTPError from
\* raise_for_status for any other status, the RequestException re-raised when
\* the request itself fails
CallService(reply) ==
    IF reply.kind # "http"
    THEN [raised |-> TRUE, value |-> reply.kind, status |-> 0]
    ELSE IF reply.status = 404
         THEN [raised |-> FALSE, value |-> "json", status |-> reply.status]
         ELSE IF reply.status >= 400
              THEN [raised |-> TRUE, value |-> "HTTPError", status |-> reply.status]
              ELSE [raised |-> FALSE, value |-> "json", status |-> reply.status]

\* the answer of a handler's except branch: body is the error code of the
\* envelope, message its message
Unavailable(route) ==
    IF route \in {"orders_status"}
    THEN [status |-> 500, body |-> "Internal server error", message |-> "none"]
    ELSE [status |-> 503, body |-> "SERVICE_UNAVAILABLE",
          message |-> IF route = "get_user_details"
                      THEN "Service temporarily unavailable"
                      ELSE IF FirstBackend(route) = "users_service"
                           THEN "Users service temporarily unavailable"
                           ELSE "Orders service temporarily unavailable"]

\* the answer of a single-call handler to what circuit.call handed back:
\* `return jsonify(result), status` or the except branch
HandlerAnswer(route, outcome) ==
    IF outcome.raised
    THEN Unavailable(route)
    ELSE [status |-> outcome.status, body |-> "backend json"]

\* variant: get_user_details without the early return of lines 386-387
UserDetailsIgnoresNotFound(b, outcome) ==
    IF outcome.raised
    THEN [done |-> TRUE, answer |-> Unavailable("get_user_details")]
    ELSE IF b = "users_service"
         THEN [done |-> FALSE, answer |-> [status |-> 0, body |-> "none"]]
         ELSE [done |-> TRUE,
               answer |-> [status |-> 200, body |-> "user and orders"]]

\* variant: get_user_details answering with the user alone when the orders
\* call raises
UserDetailsBestEffort(b, outcome) ==
    IF outcome.raised
    THEN IF b = "users_service"
         THEN [done |-> TRUE, answer |-> Unavailable("get_user_details")]
         ELSE [done |-> TRUE, answer |-> [status |-> 200, body |-> "user only"]]
    ELSE IF b = "users_service"
         THEN IF outcome.status = 404
              THEN [done |-> TRUE,
                    answer |-> [status |-> 404, body |-> "backend json"]]
              ELSE [done |-> FALSE, answer |-> [status |-> 0, body |-> "none"]]
         ELSE [done |-> TRUE,
               answer |-> [status |-> 200, body |-> "user and orders"]]

\* get_user_details (lines 384-396) once circuit.call for backend b has
\* handed back outcome: the except branch when it raised; after the users
\* call the early return of a 404 or else the orders call (done = FALSE);
\* after the orders call, whose status is dropped, the merged answer
UserDetails(b, outcome) ==
    IF outcome.raised
    THEN [done |-> TRUE, answer |-> Unavailable("get_user_details")]
    ELSE IF b = "users_service"
         THEN IF outcome.status = 404
              THEN [done |-> TRUE,
                    answer |-> [status |-> 404, body |-> "backend json"]]
              ELSE [done |-> FALSE, answer |-> [status |-> 0, body |-> "none"]]
         ELSE [done |-> TRUE,
               answer |-> [status |-> 200, body |-> "user and orders"]]

\* variant: a call of the orders service that raised is made again
HandleRetriesOrders(route, b, outcome) ==
    IF b = "orders_service" /\ outcome.raised
    THEN [done |-> FALSE, answer |-> [status |-> 0, body |-> "none"]]
    ELSE IF route = "get_user_details"
         THEN UserDetails(b, outcome)
         ELSE [done |-> TRUE, answer |-> HandlerAnswer(route, outcome)]

\* what the handler of route does with what circuit.call for backend b has
\* handed back
Handle(route, b, outcome) ==
    IF route = "get_user_details"
    THEN UserDetails(b, outcome)
    ELSE [done |-> TRUE, answer |-> HandlerAnswer(route, outcome)]

----------------------------------------------------------------------------
(* The state once every object has been constructed *)

NoCall == [kind |-> "none"]

Threads == 1..NumThreads

Idle == [stage |-> "idle", route |-> "none", backend |-> "none",
         credential |-> "none"]

Init ==
    /\ now = 0
    /\ cb = NewBreaker(0)
    /\ pc = [c \in Callers |-> "ready"]
    /\ op_calls = 0
    /\ rl = NewRateLimiter(RLMaxRequests, RLWindow)
    /\ unswept = NewRateLimiter(RLMaxRequests, RLWindow)
    /\ admitted = <<>>
    /\ circuit = [b \in Backends |-> NewBreaker(0)]
    /\ limiter = [auth |-> NewRateLimiter(AuthQuota, limiter_window),
                  order_creation |-> NewRateLimiter(OrderQuota, limiter_window)]
    /\ req = [t \in Threads |-> Idle]
    /\ last = NoCall

----------------------------------------------------------------------------
(* SpecCB: NumCallers threads share one breaker *)

\* A caller enters call: lines 55-79, up to the invocation of func.
Enter(c) ==
    /\ pc[c] = "ready"
    /\ cb.total_requests < MaxCalls
    /\ LockAvailable(pc, c)
    /\ LET e == CallEntry(cb, now) IN
       /\ cb' = e.cb
       /\ IF e.admitted
          THEN /\ pc' = [pc EXCEPT ![c] = "calling"]
               /\ op_calls' = op_calls + 1
               /\ last' = [kind |-> "admit", caller |-> c, from |-> cb.state]
          ELSE /\ last' = [kind |-> "call", caller |-> c, from |-> cb.state,
                           invoked |-> 0, op |-> Returned("none"),
                           outcome |-> e.raised]
               /\ UNCHANGED <<pc, op_calls>>
    /\ UNCHANGED <<now, rlvars, gwvars>>

\* func finishes with res and the caller leaves call: lines 79-143.
Complete(c) ==
    /\ pc[c] = "calling"
    /\ LockAvailable(pc, c)
    /\ \E res \in StubResults :
         LET x == CallExit(cb, now, res) IN
         /\ cb' = x.cb
         /\ last' = [kind |-> "call", caller |-> c, from |-> cb.state,
                     invoked |-> 1, op |-> res, outcome |-> x.outcome]
    /\ pc' = [pc EXCEPT ![c] = "ready"]
    /\ UNCHANGED <<now, op_calls, rlvars, gwvars>>

\* An administrator calls reset.
Reset ==
    /\ LockAvailable(pc, 0)
    /\ cb' = ResetBreaker(cb, now)
    /\ last' = [kind |-> "reset", from |-> cb.state]
    /\ UNCHANGED <<now, pc, op_calls, rlvars, gwvars>>

\* A reader calls get_stats.
Stats ==
    /\ LockAvailable(pc, 0)
    /\ last' = [kind |-> "stats", stats |-> GetStats(cb)]
    /\ UNCHANGED <<now, cbvars, rlvars, gwvars>>

\* The clock advances; its grain is half a reset_timeout, so that an elapsed
\* time below, equal to and above reset_timeout all occur.
Tick ==
    /\ \E d \in {reset_timeout \div 2} :
         /\ now + d <= MaxTime
         /\ now' = now + d
    /\ UNCHANGED <<cbvars, rlvars, gwvars, last>>

CBNext ==
    \/ \E c \in Callers : Enter(c)
    \/ \E c \in Callers : Complete(c)
    \/ Reset
    \/ Stats
    \/ Tick

SpecCB == Init /\ [][CBNext]_vars

----------------------------------------------------------------------------
(* SpecOnce: MThreads threads share one new breaker and each of them makes  *)
(* one call                                                                 *)

OnceThreads == 1..MThreads

InitOnce ==
    /\ now = 0
    /\ cb = NewBreaker(0)
    /\ pc = [c \in OnceThreads |-> "ready"]
    /\ op_calls = 0
    /\ rl = NewRateLimiter(RLMaxRequests, RLWindow)
    /\ unswept = NewRateLimiter(RLMaxRequests, RLWindow)
    /\ admitted = <<>>
    /\ circuit = [b \in Backends |-> NewBreaker(0)]
    /\ limiter = [auth |-> NewRateLimiter(AuthQuota, limiter_window),
                  order_creation |-> NewRateLimiter(OrderQuota, limiter_window)]
    /\ req = [t \in Threads |-> Idle]
    /\ last = NoCall

\* Thread c enters call (lines 55-79); a call that is rejected is over.
CallOnce(c) ==
    /\ pc[c] = "ready"
    /\ LockAvailable(pc, c)
    /\ LET e == CallEntry(cb, now) IN
       /\ cb' = e.cb
       /\ IF e.admitted
          THEN /\ pc' = [pc EXCEPT ![c] = "calling"]
               /\ op_calls' = op_calls + 1
          ELSE /\ pc' = [pc EXCEPT ![c] = "done"]
               /\ UNCHANGED op_calls
    /\ UNCHANGED <<now, rlvars, gwvars, last>>

\* The func of thread c finishes and call records it (lines 79-143).
FinishOnce(c) ==
    /\ pc[c] = "calling"
    /\ LockAvailable(pc, c)
    /\ \E res \in StubResults : cb' = CallExit(cb, now, res).cb
    /\ pc' = [pc EXCEPT ![c] = "done"]
    /\ UNCHANGED <<now, op_calls, rlvars, gwvars, last>>

OnceNext ==
    \/ \E c \in OnceThreads : CallOnce(c)
    \/ \E c \in OnceThreads : FinishOnce(c)
    \/ Tick

SpecOnce == InitOnce /\ [][OnceNext]_vars

----------------------------------------------------------------------------
(* SpecProbe: the callers of SpecCB share a breaker that five calls, made   *)
(* one after the other at time 0, have opened; no call is in progress       *)

\* the breaker after one whole call whose func ended with res at time 0
OneCall(b, res) == CallExit(CallEntry(b, 0).cb, 0, res).cb

\* two successes, then three failures: the fifth sample trips the breaker
OpenedBreaker ==
    OneCall(OneCall(OneCall(OneCall(OneCall(NewBreaker(0),
        Returned("result")), Returned("result")),
        Raised("ConnectionError")), Raised("ConnectionError")),
        Raised("ConnectionError"))

InitProbe ==
    /\ now = 0
    /\ cb = OpenedBreaker
    /\ pc = [c \in Callers |-> "ready"]
    /\ op_calls = OpenedBreaker.total_requests
    /\ rl = NewRateLimiter(RLMaxRequests, RLWindow)
    /\ unswept = NewRateLimiter(RLMaxRequests, RLWindow)
    /\ admitted = <<>>
    /\ circuit = [b \in Backends |-> NewBreaker(0)]
    /\ limiter = [auth |-> NewRateLimiter(AuthQuota, limiter_window),
                  order_creation |-> NewRateLimiter(OrderQuota, limiter_window)]
    /\ req = [t \in Threads |-> Idle]
    /\ last = NoCall

ProbeNext ==
    \/ \E c \in Callers : Enter(c)
    \/ \E c \in Callers : Complete(c)
    \/ Tick

SpecProbe == InitProbe /\ [][ProbeNext]_vars

----------------------------------------------------------------------------
(* SpecLate: as SpecProbe, but the first caller was admitted before the     *)
(* five calls that opened the breaker, and its func is still running; the   *)
(* other callers arrive afterwards                                          *)

\* the caller whose func has been running since before the trip
Straggler == CHOOSE c \in Callers : \A d \in Callers : c <= d

\* the straggler has entered call; then two successes and three failures
LateBreaker ==
    OneCall(OneCall(OneCall(OneCall(OneCall(CallEntry(NewBreaker(0), 0).cb,
        Returned("result")), Returned("result")),
        Raised("ConnectionError")), Raised("ConnectionError")),
        Raised("ConnectionError"))

InitLate ==
    /\ now = 0
    /\ cb = LateBreaker
    /\ pc = [c \in Callers |-> IF c = Straggler THEN "calling" ELSE "ready"]
    /\ op_calls = LateBreaker.total_requests
    /\ rl = NewRateLimiter(RLMaxRequests, RLWindow)
    /\ unswept = NewRateLimiter(RLMaxRequests, RLWindow)
    /\ admitted = <<>>
    /\ circuit = [b \in Backends |-> NewBreaker(0)]
    /\ limiter = [auth |-> NewRateLimiter(AuthQuota, limiter_window),
                  order_creation |-> NewRateLimiter(OrderQuota, limiter_window)]
    /\ req = [t \in Threads |-> Idle]
    /\ last = NoCall

LateNext ==
    \/ \E c \in Callers \ {Straggler} : Enter(c)
    \/ \E c \in Callers : Complete(c)
    \/ Tick

SpecLate == InitLate /\ [][LateNext]_vars

----------------------------------------------------------------------------
(* SpecRecover: the breaker and the callers of SpecLate when calls keep     *)
(* arriving, the clock keeps going, every func ends, and every func that    *)
(* ends once twice reset_timeout has passed succeeds                        *)

\* A caller enters call, as in Enter; MaxCalls caps the calls that are
\* rejected and MaxOps those that are admitted by a closed breaker (those
\* that a half_open breaker admits are as many as it takes to close or
\* reopen it).
Arrive(c) ==
    /\ pc[c] = "ready"
    /\ LockAvailable(pc, c)
    /\ LET e == CallEntry(cb, now) IN
       /\ IF e.admitted
          THEN e.cb.state = "half_open" \/ op_calls < MaxOps
          ELSE cb.total_requests < MaxCalls
       /\ cb' = e.cb
       /\ IF e.admitted
          THEN /\ pc' = [pc EXCEPT ![c] = "calling"]
               /\ op_calls' = op_calls + 1
               /\ last' = [kind |-> "admit", caller |-> c, from |-> cb.state]
          ELSE /\ last' = [kind |-> "call", caller |-> c, from |-> cb.state,
                           invoked |-> 0, op |-> Returned("none"),
                           outcome |-> e.raised]
               /\ UNCHANGED <<pc, op_calls>>
    /\ UNCHANGED <<now, rlvars, gwvars>>

\* func finishes, as in Complete; it can fail only before twice reset_timeout
\* has passed on the clock.
Finish(c) ==
    /\ pc[c] = "calling"
    /\ LockAvailable(pc, c)
    /\ \E res \in IF now < 2 * reset_timeout THEN StubResults
                                            ELSE {Returned("result")} :
         LET x == CallExit(cb, now, res) IN
         /\ cb' = x.cb
         /\ last' = [kind |-> "call", caller |-> c, from |-> cb.state,
                     invoked |-> 1, op |-> res, outcome |-> x.outcome]
    /\ pc' = [pc EXCEPT ![c] = "ready"]
    /\ UNCHANGED <<now, op_calls, rlvars, gwvars>>

RecoverNext ==
    \/ \E c \in Callers : Arrive(c)
    \/ \E c \in Callers : Finish(c)
    \/ Tick

SpecRecover ==
    /\ InitLate
    /\ [][RecoverNext]_vars
    /\ WF_vars(Tick)
    /\ WF_vars(\E c \in Callers : Arrive(c))
    /\ \A c \in Callers : WF_vars(Finish(c))

----------------------------------------------------------------------------
(* SpecRL: callers of one RateLimiter; is_allowed and cleanup_old_entries   *)
(* each run under the limiter's lock, so each is one step                   *)

RLIdentifiers == {"ip:10.0.0.1", "user:7"}

\* the history with one more admission of identifier, at time t
Logged(history, identifier, t) ==
    [i \in DOMAIN history \cup {identifier} |->
        IF i = identifier
        THEN IF i \in DOMAIN history THEN Append(history[i], t) ELSE <<t>>
        ELSE history[i]]

\* the history once the clock shows bound + window_seconds: the admissions
\* newer than bound, and no entry for an identifier that has none
StillInWindow(history, bound) ==
    LET Newer(x) == x > bound
        live == {i \in DOMAIN history : SelectSeq(history[i], Newer) # <<>>}
    IN [i \in live |-> SelectSeq(history[i], Newer)]

\* reset_time of the rejection this call retries: the call before it was a
\* rejected is_allowed of the same identifier
RetryOf(identifier) ==
    IF last.kind = "is_allowed" /\ last.identifier = identifier /\ ~last.allowed
    THEN last.reset_time
    ELSE None

\* Some request thread runs rate_limit.wrapped for a request of identifier:
\* is_allowed, and the 429 answer when it rejects (status None: the request
\* goes on to its handler).
Admit(identifier) ==
    /\ LET r == IsAllowed(rl, identifier, now)
           u == IsAllowed(unswept, identifier, now)
       IN
       /\ rl' = r.limiter
       /\ unswept' = u.limiter
       /\ admitted' = IF r.allowed
                      THEN Logged(admitted, identifier, now)
                      ELSE admitted
       /\ last' = [kind |-> "is_allowed", identifier |-> identifier, at |-> now,
                   allowed |-> r.allowed, remaining |-> r.remaining,
                   reset_time |-> r.reset_time, retry_of |-> RetryOf(identifier),
                   status |-> IF r.allowed THEN None
                              ELSE RateLimitRejection(r, now).status,
                   unswept |-> <<u.allowed, u.remaining, u.reset_time>>]
    /\ UNCHANGED <<now, cbvars, gwvars>>

\* The background task calls cleanup_old_entries.
Cleanup ==
    /\ rl' = CleanupOldEntries(rl, now)
    /\ last' = [kind |-> "cleanup",
                removed |-> DOMAIN rl.requests
                               \ DOMAIN CleanupOldEntries(rl, now).requests]
    /\ UNCHANGED <<now, cbvars, gwvars, unswept, admitted>>

RLTick ==
    /\ now < RLMaxTime
    /\ now' = now + 1
    /\ admitted' = StillInWindow(admitted, now + 1 - rl.window_seconds)
    /\ UNCHANGED <<cbvars, rl, unswept, gwvars, last>>

RLNext ==
    \/ \E i \in RLIdentifiers : Admit(i)
    \/ Cleanup
    \/ RLTick

SpecRL == Init /\ [][RLNext]_vars

\* The RateLimiter as the gateway drives it: rate_limit.wrapped calls
\* is_allowed (line 112) and nothing in the gateway calls, starts or schedules
\* cleanup_old_entries; time passes whatever the callers do.
RLAppNext ==
    \/ \E i \in RLIdentifiers : Admit(i)
    \/ RLTick

SpecRLApp == Init /\ [][RLAppNext]_vars /\ WF_vars(RLTick)

----------------------------------------------------------------------------
(* Spec: NumThreads threads of the gateway handle requests                  *)

Clients == {1}

\* what the client is sent (the fields of answer), and the backend's answer
\* it was made from
Response(answer, reply) ==
    [kind |-> "response", reply |-> reply] @@ answer

\* the calls of circuit.call made so far and those the requests under way
\* may still make
CallsCommitted ==
    circuit["users_service"].total_requests
        + circuit["orders_service"].total_requests
        + Cardinality({t \in Threads : req[t].stage = "dispatch"})
        + Cardinality({t \in Threads : req[t].route = "get_user_details"
                                          /\ req[t].backend = "users_service"})

\* A thread takes a request and runs the route's decorators: require_auth
\* (lines 53-70) and then rate_limit.wrapped (lines 113-131), up to the call
\* of the handler itself.
Receive(t) ==
    /\ req[t].stage = "idle"
    /\ \E route \in Routes, credential \in Credentials, client \in Clients :
       \E segment \in UserIdSegments(route) :
         /\ CallsCommitted + (IF route = "get_user_details" THEN 2 ELSE 1)
               <= MaxRequests
         /\ LET auth == IF RequiresAuth(route)
                        THEN RequireAuth(route, segment, credential)
                        ELSE [passed |-> TRUE, user |-> FALSE]
                name == LimiterOf(route)
                r == IsAllowed(limiter[name], GetIdentifier(auth.user, client), now)
                forward == [stage |-> "dispatch", route |-> route,
                            backend |-> FirstBackend(route),
                            credential |-> IF RequiresAuth(route)
                                           THEN credential ELSE "none"]
            IN IF ~auth.passed
               THEN /\ last' = Response([status |-> 401, body |-> "UNAUTHORIZED"],
                                        NoReply)
                    /\ UNCHANGED <<limiter, req>>
               ELSE IF name = "none"
                    THEN /\ req' = [req EXCEPT ![t] = forward]
                         /\ last' = NoCall
                         /\ UNCHANGED limiter
                    ELSE /\ limiter' = [limiter EXCEPT ![name] = r.limiter]
                         /\ IF r.allowed
                            THEN /\ req' = [req EXCEPT ![t] = forward]
                                 /\ last' = NoCall
                            ELSE /\ last' = Response(RateLimitRejection(r, now),
                                                     NoReply)
                                 /\ UNCHANGED req
    /\ UNCHANGED <<now, cbvars, rlvars, circuit>>

\* The handler enters circuit.call (lines 55-79) for its next backend; a
\* raise there ends the handler in its except branch.
Dispatch(t) ==
    /\ req[t].stage = "dispatch"
    /\ LET b == req[t].backend
           e == CallEntry(circuit[b], now)
       IN /\ circuit' = [circuit EXCEPT ![b] = e.cb]
          /\ IF e.admitted
             THEN /\ req' = [req EXCEPT ![t].stage = "calling"]
                  /\ last' = NoCall
             ELSE /\ req' = [req EXCEPT ![t] = Idle]
                  /\ last' = Response(Handle(req[t].route, b, e.raised).answer,
                                      NoReply)
    /\ UNCHANGED <<now, cbvars, rlvars, limiter>>

\* The backend answers (or fails to), circuit.call records it (lines 79-143)
\* and the handler goes on: get_user_details, after a users answer other than
\* 404, to its second call (line 389), every other handler to its answer.
Reply(t) ==
    /\ req[t].stage = "calling"
    /\ \E reply \in BackendReplies :
         LET b == req[t].backend
             route == req[t].route
             x == CallExit(circuit[b], now, CallService(reply))
             h == Handle(route, b, x.outcome)
         IN /\ circuit' = [circuit EXCEPT ![b] = x.cb]
            /\ IF h.done
               THEN /\ req' = [req EXCEPT ![t] = Idle]
                    /\ last' = Response(h.answer, reply)
               ELSE /\ req' = [req EXCEPT ![t].stage = "dispatch",
                                          ![t].backend = "orders_service"]
                    /\ last' = [kind |-> "proceed", reply |-> reply]
    /\ UNCHANGED <<now, cbvars, rlvars, limiter>>

\* The clock advances; one step of it outlasts reset_timeout.
GWTick ==
    /\ \E d \in {reset_timeout + 1} :
         /\ now + d <= GWMaxTime
         /\ now' = now + d
    /\ UNCHANGED <<cbvars, rlvars, gwvars, last>>

Next ==
    \/ \E t \in Threads : Receive(t)
    \/ \E t \in Threads : Dispatch(t)
    \/ \E t \in Threads : Reply(t)
    \/ GWTick

Spec == Init /\ [][Next]_vars

----------------------------------------------------------------------------
(* Steps of SpecCB, as seen from outside *)

\* this step is some caller entering call
EnterStep == cb'.total_requests = cb.total_requests + 1

\* this step is some caller's func finishing and call recording it
ExitStep == \E c \in Callers : pc[c] = "calling" /\ pc'[c] = "ready"

FailureStep == ExitStep /\ last'.op.raised

SuccessStep == ExitStep /\ ~last'.op.raised

Elapsed == now - cb.last_failure_time

----------------------------------------------------------------------------
(* Claims on CircuitBreaker.call, checked under SpecCB *)

\* C1: while the breaker is open and less than reset_timeout has passed since
\* last_failure_time, every call entered raises the circuit-open error at once
\* and func is not invoked: no caller starts func and the count of invocations
\* stays as it was, however many such calls are made.
C1_OpenFailsFast ==
    [][(EnterStep /\ cb.state = "open" /\ cb.last_failure_time # None
            /\ Elapsed < reset_timeout)
         => /\ last'.kind = "call"
            /\ last'.outcome = CircuitOpenError
            /\ last'.invoked = 0
            /\ op_calls' = op_calls
            /\ pc' = pc
            /\ cb'.state = "open"]_vars

\* two calls have been rejected by the open breaker, the last one just now
C1_Witness ==
    /\ cb.state = "open"
    /\ Elapsed < reset_timeout
    /\ last.kind = "call" /\ last.invoked = 0 /\ last.outcome = CircuitOpenError
    /\ cb.total_requests >= op_calls + 2

\* C2: when a failure is recorded on a closed breaker, the breaker opens
\* exactly if, that failure counted, failure_count + success_count >=
\* min_requests and failure_count / (failure_count + success_count) >= 1/2,
\* and stays closed otherwise; with 3 successes and 2 failures counted the
\* breaker is closed, and the failure that makes it 3 of 6 opens it.
C2_TripsAtThreshold ==
    /\ [][(FailureStep /\ cb.state = "closed")
            => LET f == cb'.failure_count
                   n == cb'.failure_count + cb'.success_count
               IN /\ f = cb.failure_count + 1
                  /\ cb'.success_count = cb.success_count
                  /\ cb'.state \in {"closed", "open"}
                  /\ cb'.state = "open" <=> (n >= 5 /\ 2 * f >= n)]_vars
    /\ []((cb.failure_count = 2 /\ cb.success_count = 3) => cb.state = "closed")
    /\ [][(FailureStep /\ cb.state = "closed" /\ cb.failure_count = 2
            /\ cb.success_count = 3) => cb'.state = "open"]_vars

\* six sequential calls, 3 successes and 3 failures, the last failure tripping
C2_Witness ==
    /\ cb.state = "open"
    /\ cb.failure_count = 3 /\ cb.success_count = 3
    /\ cb.total_requests = 6 /\ op_calls = 6
    /\ \A c \in Callers : pc[c] = "ready"
    /\ last.kind = "call" /\ last.from = "closed" /\ last.op.raised

\* C3: a call entered on an open breaker more than reset_timeout after
\* last_failure_time moves the breaker to half_open with half_open_success = 0
\* and starts func, once: the entering caller is the only one to start func in
\* that step and a finishing call starts none.
C3_ProbeAfterTimeout ==
    /\ [][(EnterStep /\ cb.state = "open" /\ cb.last_failure_time # None
             /\ Elapsed > reset_timeout)
            => /\ cb'.state = "half_open"
               /\ cb'.half_open_success = 0
               /\ cb'.last_state_change = now
               /\ op_calls' = op_calls + 1
               /\ \E c \in Callers :
                    /\ pc[c] = "ready" /\ pc'[c] = "calling"
                    /\ \A d \in Callers \ {c} : pc'[d] = pc[d]]_vars
    /\ [][~EnterStep => op_calls' = op_calls]_vars
    /\ [](last.kind = "call" => last.invoked <= 1)

\* the probe is in flight on a breaker that this call moved to half_open
C3_Witness ==
    /\ cb.state = "half_open"
    /\ cb.half_open_success = 0
    /\ last.kind = "admit" /\ last.from = "open"
    /\ pc[last.caller] = "calling"
    /\ cb.last_state_change = now
    /\ Elapsed > reset_timeout

C5_HalfOpenFailureReopens ==
    [][(FailureStep /\ cb.state = "half_open")
         => /\ cb'.state = "open"
            /\ cb'.last_failure_time = now
            /\ cb'.last_state_change = now
            /\ cb'.half_open_success = cb.half_open_success]_vars

\* a failure has just reopened a breaker that had counted one probe success
C5_Witness ==
    /\ cb.state = "open"
    /\ cb.half_open_success = 1
    /\ last.kind = "call" /\ last.from = "half_open" /\ last.op.raised
    /\ cb.last_failure_time = now

\* C6: a call whose func was invoked and raised hands the caller that same
\* exception, whatever the state of the breaker before and after.
C6_FailurePropagates ==
    (last.kind = "call" /\ last.invoked = 1 /\ last.op.raised)
        => last.outcome = last.op

\* a failure that tripped the breaker reached the caller unchanged
C6_Witness ==
    /\ last.kind = "call" /\ last.invoked = 1 /\ last.op = Raised("Timeout")
    /\ last.outcome = Raised("Timeout")
    /\ last.from = "closed" /\ cb.state = "open"

\* C20: reset, whatever the state it is called in, leaves the breaker closed
\* with failure_count = success_count = half_open_success = 0 and
\* last_state_change = the time of the reset, and leaves total_requests,
\* total_failures and last_failure_time as they were.
C20_ResetFrame ==
    [][(last'.kind = "reset" /\ now' = now) =>
         /\ cb'.state = "closed"
         /\ cb'.failure_count = 0
         /\ cb'.success_count = 0
         /\ cb'.half_open_success = 0
         /\ cb'.last_state_change = now
         /\ cb'.total_requests = cb.total_requests
         /\ cb'.total_failures = cb.total_failures
         /\ cb'.last_failure_time = cb.last_failure_time
         /\ UNCHANGED <<pc, op_calls>>]_vars

\* reset has just closed a breaker that failures had opened: the totals and
\* the time of the last failure are still there
C20_Witness ==
    /\ last.kind = "reset" /\ last.from = "open"
    /\ cb.state = "closed"
    /\ cb.failure_count = 0 /\ cb.success_count = 0
    /\ cb.total_failures >= 3
    /\ cb.last_failure_time # None
    /\ cb.last_state_change = now
    /\ now > cb.last_failure_time

\* C18: self.lock is not held while func runs: in every state in which the
\* func of some caller is running, every other caller that is about to call
\* can enter call (and is admitted or rejected there), and every other caller
\* whose func is running too can have its success or failure recorded.
C18_OperationRunsUnlocked ==
    \A c \in Callers : pc[c] = "calling" =>
      \A d \in Callers \ {c} :
         /\ (pc[d] = "ready" /\ cb.total_requests < MaxCalls)
               => ENABLED Enter(d)
         /\ pc[d] = "calling" => ENABLED Complete(d)

\* a caller's call has just been recorded while the func of another caller
\* was, and still is, running
C18_Witness ==
    /\ last.kind = "call" /\ last.invoked = 1
    /\ \E c \in Callers \ {last.caller} : pc[c] = "calling"

\* a step in which some caller's call is admitted and its func started
AdmittedStep == op_calls' = op_calls + 1

\* a step in which some caller's call is rejected without running func
RejectedStep ==
    /\ last'.kind = "call" /\ last'.invoked = 0
    /\ now' = now
    /\ UNCHANGED <<pc, op_calls>>
    /\ (last' # last \/ cb' # cb)

\* a step in which reset runs
ResetStep == last'.kind = "reset" /\ now' = now

\* no caller is inside call
Quiescent == \A c \in Callers : pc[c] = "ready"

\* b is closed although its window holds at least min_requests samples and
\* their failure rate has reached error_threshold
AboveThreshold(b) ==
    /\ b.state = "closed"
    /\ b.failure_count + b.success_count >= min_requests
    /\ b.failure_count * error_threshold_den
          >= error_threshold_num * (b.failure_count + b.success_count)

\* C23: a call that arrives at an open breaker exactly reset_timeout after
\* the last failure (elapsed = reset_timeout, the boundary of
\* elapsed >= reset_timeout) moves the breaker to half_open and invokes the
\* operation.
C23_ProbeAtBoundary ==
    [][(EnterStep /\ cb.state = "open" /\ cb.last_failure_time # None
           /\ Elapsed = reset_timeout)
         => (cb'.state = "half_open" /\ op_calls' = op_calls + 1)]_vars

\* the state changes that call can make
CallTransitions ==
    {<<"closed", "open">>, <<"open", "half_open">>,
     <<"half_open", "closed">>, <<"half_open", "open">>}

\* C24: the breaker starts closed, and its state changes only along
\* closed -> open, open -> half_open, half_open -> closed and
\* half_open -> open, or from any state to closed by reset; call never takes
\* it from closed to half_open or from open to closed.
C24_Transitions ==
    /\ cb.state = "closed"
    /\ [][cb'.state # cb.state =>
            IF ResetStep
            THEN cb'.state = "closed"
            ELSE <<cb.state, cb'.state>> \in CallTransitions]_vars

\* a probe succeeded and the next one failed: the breaker has gone
\* closed -> open -> half_open -> open
C24_Witness ==
    /\ last.kind = "call" /\ last.invoked = 1 /\ last.from = "half_open"
    /\ last.op.raised
    /\ cb.state = "open"
    /\ cb.half_open_success = 1
    /\ cb.last_state_change = now

\* C25 as stated: in no state without a call in progress is the breaker
\* closed with failure_count + success_count >= min_requests and a failure
\* rate >= error_threshold, whether the sample that reached min_requests was
\* a failure or a success.
C25_NeverClosedAboveThreshold ==
    Quiescent => ~AboveThreshold(cb)

\* C25, amended: the error rate is evaluated when a failure is recorded and
\* only then. A failure never leaves the breaker closed with
\* failure_count + success_count >= min_requests and a failure rate >=
\* error_threshold; a success recorded on a closed breaker leaves it closed
\* whatever the rate, and it is only by such a success that the breaker comes
\* to be closed at or above the threshold.
C25_ThresholdEvaluatedOnFailureOnly ==
    [][/\ FailureStep => ~AboveThreshold(cb')
       /\ (SuccessStep /\ cb.state = "closed") => cb'.state = "closed"
       /\ (AboveThreshold(cb') /\ ~AboveThreshold(cb))
             => (SuccessStep /\ cb.state = "closed")]_vars

\* three failures and then two successes: no call is in progress and the
\* breaker is closed with a failure rate of 3/5
C25_Witness ==
    /\ Quiescent
    /\ last.kind = "call" /\ last.invoked = 1 /\ ~last.op.raised
    /\ cb.state = "closed"
    /\ cb.failure_count = 3 /\ cb.success_count = 2
    /\ cb.total_requests = min_requests

\* C26: failure_count and success_count never decrease, except that both are
\* set to zero together when the breaker becomes closed from half_open or by
\* reset; in every other step each of them stays or grows by one (one sample
\* at most per step), also across closed -> open, open -> half_open and
\* half_open -> open.
C26_WindowCountersGrow ==
    [][\/ /\ cb'.failure_count \in {cb.failure_count, cb.failure_count + 1}
          /\ cb'.success_count \in {cb.success_count, cb.success_count + 1}
          /\ cb'.failure_count + cb'.success_count
                <= cb.failure_count + cb.success_count + 1
          /\ ~ResetStep
          /\ ~(cb.state = "half_open" /\ cb'.state = "closed")
       \/ /\ cb'.failure_count = 0 /\ cb'.success_count = 0
          /\ cb'.state = "closed"
          /\ \/ ResetStep
             \/ cb.state = "half_open" /\ SuccessStep]_vars

\* the first probe succeeded: the breaker is half_open and the window still
\* holds the samples that opened it, and the probe
C26_Witness ==
    /\ last.kind = "call" /\ last.invoked = 1 /\ last.from = "half_open"
    /\ cb.state = "half_open"
    /\ cb.half_open_success = 1
    /\ cb.failure_count >= 3
    /\ cb.failure_count + cb.success_count >= min_requests + 1

\* C27: total_requests and total_failures never decrease, whatever is called
\* (call, get_stats, reset): total_requests grows by exactly one in each call,
\* a call rejected by the open breaker included, total_failures by exactly
\* one when an invoked operation fails, and nothing else changes them;
\* total_failures <= total_requests in every state.
C27_TotalsMonotone ==
    /\ [](cb.total_failures <= cb.total_requests)
    /\ [][/\ (AdmittedStep \/ RejectedStep)
               => /\ cb'.total_requests = cb.total_requests + 1
                  /\ cb'.total_failures = cb.total_failures
          /\ FailureStep
               => /\ cb'.total_failures = cb.total_failures + 1
                  /\ cb'.total_requests = cb.total_requests
          /\ ~(AdmittedStep \/ RejectedStep)
               => cb'.total_requests = cb.total_requests
          /\ ~FailureStep
               => cb'.total_failures = cb.total_failures]_vars

\* a call has just been rejected by a breaker that reset had closed and new
\* failures opened again: the totals count the calls of before the reset and
\* the rejected call
C27_Witness ==
    /\ last.kind = "call" /\ last.invoked = 0
    /\ last.outcome = CircuitOpenError
    /\ cb.total_failures > cb.failure_count
    /\ cb.total_requests > op_calls
    /\ cb.total_requests = MaxCalls

\* C33: in every reachable state, whatever the interleaving of call and
\* reset, an open breaker has its last_failure_time set (not None); so the
\* comparison of the elapsed time at the entry of call is always defined and
\* no call ends with the error of a None operand.
C33_OpenHasFailureTime ==
    /\ cb.state = "open" => cb.last_failure_time # None
    /\ last.kind = "call" => last.outcome # NoneTypeError

\* failures have opened the breaker again after a reset had closed it, and a
\* call has just been judged by the elapsed time
C33_Witness ==
    /\ cb.state = "open"
    /\ cb.last_failure_time # None
    /\ cb.total_failures > cb.failure_count
    /\ cb.last_state_change = cb.last_failure_time
    /\ last.kind = "call" /\ last.invoked = 0
    /\ Elapsed = reset_timeout \div 2

\* C34: a call that the open breaker fails fast changes total_requests only:
\* state, failure_count, success_count, half_open_success, total_failures,
\* last_failure_time and last_state_change are as before, so rejected calls
\* are no failures and do not put off the half_open probe.
C34_RejectionCountsRequestOnly ==
    [][(RejectedStep /\ last'.outcome = CircuitOpenError) =>
         /\ cb.state = "open"
         /\ cb' = [cb EXCEPT !.total_requests = @ + 1]]_vars

\* three calls have been rejected, the last at the very end of the timeout
C34_Witness ==
    /\ last.kind = "call" /\ last.invoked = 0 /\ last.outcome = CircuitOpenError
    /\ cb.state = "open"
    /\ Elapsed = reset_timeout
    /\ cb.total_requests >= op_calls + 3

\* C36 as stated: while the breaker stays open last_failure_time does not
\* change, so the first call that arrives more than reset_timeout after the
\* breaker opened is admitted as the half_open probe, also when an operation
\* admitted before the trip fails after it.
C36_OpenKeepsFailureTime ==
    [][/\ (cb.state = "open" /\ cb'.state = "open")
             => cb'.last_failure_time = cb.last_failure_time
       /\ (EnterStep /\ cb.state = "open"
              /\ now - cb.last_state_change > reset_timeout)
             => (cb'.state = "half_open" /\ AdmittedStep)]_vars

\* C36, amended: while the breaker stays open, last_failure_time changes
\* exactly when an operation admitted before the trip fails, and then to the
\* time of that failure. A call that arrives at the open breaker is admitted
\* as the probe if more than reset_timeout has passed since last_failure_time
\* and is rejected otherwise, however long ago the breaker opened.
C36_LateFailureRestartsTimeout ==
    [][/\ (cb.state = "open" /\ cb'.state = "open")
             => cb'.last_failure_time
                   = IF FailureStep THEN now ELSE cb.last_failure_time
       /\ (EnterStep /\ cb.state = "open" /\ Elapsed > reset_timeout)
             => (cb'.state = "half_open" /\ AdmittedStep)
       /\ (EnterStep /\ cb.state = "open" /\ Elapsed <= reset_timeout)
             => (cb'.state = "open" /\ ~AdmittedStep)]_vars

\* a call has just been rejected more than reset_timeout after the breaker
\* opened: an operation admitted before the trip failed in between
C36_Witness ==
    /\ last.kind = "call" /\ last.invoked = 0 /\ last.outcome = CircuitOpenError
    /\ cb.state = "open"
    /\ now - cb.last_state_change > reset_timeout
    /\ cb.last_failure_time > cb.last_state_change
    /\ Elapsed <= reset_timeout

----------------------------------------------------------------------------
(* Claims on concurrent single calls, checked under SpecOnce *)

\* every thread has made its call and left it
AllDone == \A c \in OnceThreads : pc[c] = "done"

InFlight == Cardinality({c \in OnceThreads : pc[c] = "calling"})

Started == Cardinality({c \in OnceThreads : pc[c] # "ready"})

\* C17 as stated: once M threads have each made one call on the breaker,
\* failure_count + success_count = M, whatever the interleaving.
C17_WindowCountsAllCalls ==
    AllDone => cb.failure_count + cb.success_count = MThreads

\* C17 amended: no update is lost. total_requests counts every call entered;
\* as long as the window counters have not been zeroed by a close from
\* half_open (failure_count then still equals total_failures), failure_count
\* + success_count counts exactly the calls whose func was invoked and has
\* finished, so that in the end it is M minus the calls rejected while the
\* breaker was open, and M when every call was admitted.
C17_NoLostUpdate ==
    /\ cb.total_requests = Started
    /\ cb.failure_count = cb.total_failures =>
         /\ cb.failure_count + cb.success_count + InFlight = op_calls
         /\ (AllDone /\ op_calls = MThreads) =>
               cb.failure_count + cb.success_count = MThreads

\* all M threads were admitted before enough of them failed to open the
\* breaker, and every one of the M calls has been counted
C17_Witness ==
    /\ AllDone
    /\ cb.state = "open"
    /\ cb.success_count >= 1
    /\ cb.failure_count + cb.success_count = MThreads

----------------------------------------------------------------------------
(* Claims on the calls that reach an opened breaker, checked under SpecProbe *)

\* the number of callers whose func is running
Probing == Cardinality({c \in Callers : pc[c] = "calling"})

\* C29: half_open lets only a limited number of probe calls through: while
\* the breaker is half_open, the number of operations that were admitted and
\* are in flight at the same time is at most success_threshold.
C29_ProbesBounded ==
    cb.state = "half_open" => Probing <= success_threshold

----------------------------------------------------------------------------
(* Claims on operations that outlast a trip, checked under SpecLate *)

\* no failure has been recorded since the breaker opened: a half_open period
\* is the first one, and every operation that has finished has succeeded
NoFailureSinceTrip(b) == b.total_failures = LateBreaker.total_failures

\* the number of operations that were admitted after the trip (so, as long
\* as no failure has been recorded, in the half_open period) and have
\* finished, given the breaker's callers at positions p and n invocations
ProbesFinished(p, n) ==
    (n - LateBreaker.total_requests)
       - Cardinality({c \in Callers \ {Straggler} : p[c] = "calling"})

\* C35 as stated: the breaker goes from half_open to closed only when at
\* least success_threshold operations admitted in the current half_open
\* period have succeeded; the success of an operation that was admitted
\* earlier and was still in flight does not count.
C35_ClosedByProbesOnly ==
    [][(cb.state = "half_open" /\ cb'.state = "closed"
           /\ NoFailureSinceTrip(cb'))
         => ProbesFinished(pc', op_calls') >= success_threshold]_vars

\* C35, amended: the breaker goes from half_open to closed exactly at a
\* success that is recorded while it is half_open and brings
\* half_open_success to success_threshold; half_open_success counts every
\* success recorded since the breaker became half_open, that of an operation
\* admitted before the trip included, so with one such operation in flight
\* success_threshold - 1 successes of probes are enough.
C35_ClosedBySuccessesWhileHalfOpen ==
    [][/\ (cb.state = "half_open" /\ cb'.state = "closed")
             => /\ SuccessStep
                /\ cb.half_open_success = success_threshold - 1
                /\ cb'.half_open_success = success_threshold
                /\ NoFailureSinceTrip(cb')
                     => ProbesFinished(pc', op_calls') >= success_threshold - 1
       /\ (cb.state = "half_open" /\ SuccessStep)
             => /\ cb'.half_open_success = cb.half_open_success + 1
                /\ cb'.state = IF cb'.half_open_success >= success_threshold
                               THEN "closed" ELSE "half_open"]_vars

\* the breaker has just closed on the success of the operation admitted
\* before the trip, after the success of one probe
C35_Witness ==
    /\ cb.state = "closed"
    /\ last.kind = "call" /\ last.invoked = 1 /\ last.from = "half_open"
    /\ last.caller = Straggler
    /\ NoFailureSinceTrip(cb)
    /\ ProbesFinished(pc, op_calls) = success_threshold - 1
    /\ op_calls = LateBreaker.total_requests + 1

----------------------------------------------------------------------------
(* Claims on recovery, checked under SpecRecover *)

\* C37: when calls keep arriving and, from some time on, every invoked
\* operation succeeds, an open breaker becomes half_open and a half_open
\* breaker becomes closed: it stays neither open nor half_open for ever.
C37_Recovery ==
    /\ (cb.state = "open") ~> (cb.state = "half_open")
    /\ (cb.state = "half_open") ~> (cb.state = "closed")

\* the breaker has closed after a probe had failed and reopened it
C37_Witness ==
    /\ cb.state = "closed"
    /\ cb.half_open_success = success_threshold
    /\ cb.total_failures > LateBreaker.total_failures
    /\ cb.last_failure_time > reset_timeout
    /\ cb.last_state_change > cb.last_failure_time + reset_timeout

----------------------------------------------------------------------------
(* Claims on RateLimiter, checked under SpecRL *)

\* this step is a call of is_allowed(i)
AdmitStep(i) ==
    /\ last'.kind = "is_allowed"
    /\ last'.identifier = i
    /\ <<rl, last>>' # <<rl, last>>

\* the stored timestamps of i that lie inside the window ending at t
InWindow(l, i, t) ==
    LET stored == Lookup(l.requests, i) IN
    {stored[k] : k \in {j \in 1..Len(stored) : stored[j] > t - l.window_seconds}}

CountInWindow(l, i, t) ==
    LET stored == Lookup(l.requests, i) IN
    Cardinality({j \in 1..Len(stored) : stored[j] > t - l.window_seconds})

Oldest(S) == CHOOSE x \in S : \A y \in S : x <= y

Answer(r) == <<r.allowed, r.remaining, r.reset_time>>

\* C9: for one identifier of a limiter with max_requests = N and window W, a
\* call that finds fewer than N of its timestamps inside the window is
\* allowed (so N calls in quick succession are), a call that finds N there is
\* rejected with remaining = 0 and reset_time = the oldest of them + W, and
\* the retry of a rejected call made at or after the reset_time it reported
\* is allowed; rate_limit answers a rejected request with status 429.
C9_WindowAdmission ==
    /\ [][\A i \in RLIdentifiers : AdmitStep(i) =>
            IF CountInWindow(rl, i, now) < rl.max_requests
            THEN last'.allowed
            ELSE /\ ~last'.allowed
                 /\ last'.remaining = 0
                 /\ last'.reset_time
                      = Oldest(InWindow(rl, i, now)) + rl.window_seconds
                 /\ last'.reset_time > now
                 /\ last'.status = 429]_vars
    /\ []((last.kind = "is_allowed" /\ last.retry_of # None
             /\ last.at >= last.retry_of) => last.allowed)
    /\ []((last.kind = "is_allowed" /\ last.retry_of # None
             /\ last.at < last.retry_of) => ~last.allowed)

\* after N admissions a call was rejected, and its retry after the reported
\* reset_time has just been admitted
C9_Witness ==
    /\ last.kind = "is_allowed"
    /\ last.retry_of # None
    /\ last.at > last.retry_of
    /\ last.allowed

\* C10: a call of is_allowed(a) leaves the stored timestamps of every other
\* identifier b as they were (and b a key or not as it was), and the answer
\* of is_allowed(b) at any later time is the same after the call as before
\* it, also when the call finds a's quota used up.
C10_IdentifierIsolation ==
    [][\A a \in RLIdentifiers : AdmitStep(a) =>
         \A b \in RLIdentifiers \ {a} :
            /\ (b \in DOMAIN rl'.requests) <=> (b \in DOMAIN rl.requests)
            /\ Lookup(rl'.requests, b) = Lookup(rl.requests, b)
            /\ \A t \in now..RLMaxTime :
                 Answer(IsAllowed(rl', b, t)) = Answer(IsAllowed(rl, b, t))]_vars

\* one identifier is admitted while the quota of the other is used up
C10_Witness ==
    /\ last.kind = "is_allowed" /\ last.allowed /\ last.at = now
    /\ \E a \in RLIdentifiers \ {last.identifier} :
         CountInWindow(rl, a, now) = rl.max_requests

\* C11: in every reachable state of the limiter each identifier's stored
\* sequence holds at most max_requests timestamps, and right after a call of
\* is_allowed for an identifier (until the next call on the limiter) every
\* timestamp stored for it is newer than the time of the call minus
\* window_seconds.
C11_BoundedAndFresh ==
    /\ \A i \in DOMAIN rl.requests : Len(rl.requests[i]) <= rl.max_requests
    /\ last.kind = "is_allowed" =>
         LET stored == Lookup(rl.requests, last.identifier) IN
         \A k \in 1..Len(stored) : stored[k] > last.at - rl.window_seconds

\* a call has just been rejected at a time when the window no longer reaches
\* back to the start: the identifier's sequence is full, and all of it is
\* inside the window
C11_Witness ==
    /\ last.kind = "is_allowed" /\ ~last.allowed /\ last.at = now
    /\ now > rl.window_seconds
    /\ Len(Lookup(rl.requests, last.identifier)) = rl.max_requests
    /\ Lookup(rl.requests, last.identifier)[1] > 0

\* C19: an accepted call of is_allowed reports remaining = max_requests minus
\* the number of timestamps stored for the identifier once the current one
\* has been recorded, a number in 0..max_requests-1, and reset_time = the
\* time of the call + window_seconds; a rejected call reports remaining = 0.
C19_RemainingAndReset ==
    last.kind = "is_allowed" =>
      IF last.allowed
      THEN /\ last.remaining
                = rl.max_requests - Len(Lookup(rl.requests, last.identifier))
           /\ last.remaining \in 0..(rl.max_requests - 1)
           /\ last.reset_time = last.at + rl.window_seconds
      ELSE last.remaining = 0

\* the call that takes the last free slot has just been accepted, after
\* older timestamps had left the window
C19_Witness ==
    /\ last.kind = "is_allowed" /\ last.allowed
    /\ last.remaining = 0
    /\ last.at > rl.window_seconds
    /\ last.reset_time = last.at + rl.window_seconds

\* a step in which cleanup_old_entries runs
CleanupStep == last'.kind = "cleanup" /\ now' = now

\* C30: cleanup_old_entries removes exactly the identifiers that have no
\* stored timestamp newer than now - 2 * window_seconds; of an identifier it
\* keeps it discards the timestamps that are not newer than that bound and
\* no other, in their order; so an identifier with a request newer than the
\* bound is never removed; max_requests and window_seconds stay.
C30_CleanupExact ==
    [][CleanupStep =>
         LET bound == now - 2 * rl.window_seconds
             Newer(x) == x > bound
         IN /\ DOMAIN rl'.requests =
                  {i \in DOMAIN rl.requests :
                      \E k \in 1..Len(rl.requests[i]) :
                          rl.requests[i][k] > bound}
            /\ \A i \in DOMAIN rl'.requests :
                  rl'.requests[i] = SelectSeq(rl.requests[i], Newer)
            /\ rl'.max_requests = rl.max_requests
            /\ rl'.window_seconds = rl.window_seconds]_vars

\* a sweep has just removed an identifier and kept another, whose oldest
\* timestamp is out of the window of is_allowed but not older than two
\* windows
C30_Witness ==
    /\ last.kind = "cleanup"
    /\ last.removed # {}
    /\ \E i \in DOMAIN rl.requests :
         /\ rl.requests[i][1] <= now - rl.window_seconds
         /\ rl.requests[i][1] > now - 2 * rl.window_seconds

\* seq is in chronological order
Chronological(seq) == \A k \in 1..(Len(seq) - 1) : seq[k] <= seq[k + 1]

\* C31: in every reachable state each identifier's stored sequence is in
\* chronological (non-decreasing) order, whatever the interleaving of
\* is_allowed and cleanup_old_entries; so the first element of the sequence
\* of a rejected identifier is its oldest surviving timestamp, and the
\* reset_time of the rejection is that timestamp + window_seconds.
C31_ChronologicalOrder ==
    /\ [](\A i \in DOMAIN rl.requests : Chronological(rl.requests[i]))
    /\ [][\A i \in RLIdentifiers : (AdmitStep(i) /\ ~last'.allowed) =>
            /\ \A k \in 1..Len(rl'.requests[i]) :
                  rl'.requests[i][1] <= rl'.requests[i][k]
            /\ last'.reset_time = rl'.requests[i][1] + rl.window_seconds]_vars

\* a sweep has left a sequence that holds timestamps of different times
C31_Witness ==
    /\ last.kind = "cleanup"
    /\ \E i \in DOMAIN rl.requests :
         /\ Len(rl.requests[i]) >= 2
         /\ rl.requests[i][1] < rl.requests[i][Len(rl.requests[i])]
         /\ rl.requests[i][1] <= now - rl.window_seconds

\* C32: for every identifier and every time t, the number of requests that
\* the limiter admitted with a timestamp in (t - window_seconds, t] is at
\* most max_requests, whatever the sequence of is_allowed and
\* cleanup_old_entries calls: at every time the clock shows, the history of
\* the admissions newer than that time - window_seconds holds at most
\* max_requests of them.
C32_SlidingWindowBound ==
    \A i \in DOMAIN admitted :
       /\ Len(admitted[i]) <= rl.max_requests
       /\ \A k \in 1..Len(admitted[i]) :
            admitted[i][k] > now - rl.window_seconds /\ admitted[i][k] <= now

\* max_requests admissions lie in the window, none of them at its start or
\* at the present time alone, and a sweep has run in between
C32_Witness ==
    /\ last.kind = "cleanup"
    /\ now > 2 * rl.window_seconds
    /\ \E i \in DOMAIN admitted :
         /\ Len(admitted[i]) = rl.max_requests
         /\ admitted[i][1] < admitted[i][Len(admitted[i])]

\* C39: a rejected is_allowed call records nothing. It leaves the sequence
\* of its identifier as it was but for the expired timestamps (and the other
\* sequences as they were); a rejection that follows a rejection of the same
\* identifier reports the same reset_time, and the call made when that
\* reset_time has come, or later, is admitted.
C39_RejectionRecordsNothing ==
    /\ [][\A i \in RLIdentifiers : (AdmitStep(i) /\ ~last'.allowed) =>
            LET InWin(x) == x > now - rl.window_seconds IN
            /\ DOMAIN rl'.requests = DOMAIN rl.requests
            /\ rl'.requests[i] = SelectSeq(rl.requests[i], InWin)
            /\ \A j \in DOMAIN rl.requests \ {i} :
                  rl'.requests[j] = rl.requests[j]
            /\ UNCHANGED admitted]_vars
    /\ []((last.kind = "is_allowed" /\ last.retry_of # None /\ ~last.allowed)
             => last.reset_time = last.retry_of)
    /\ []((last.kind = "is_allowed" /\ last.retry_of # None
             /\ last.at >= last.retry_of) => last.allowed)

\* an identifier was rejected and its next call, made exactly when the
\* reset_time of the rejection came, has been admitted
C39_Witness ==
    /\ last.kind = "is_allowed" /\ last.allowed
    /\ last.retry_of # None
    /\ last.at = last.retry_of
    /\ now = last.at

\* C40: cleanup_old_entries is transparent to admission: every is_allowed
\* call answers (allowed, remaining, reset_time) as the same call does on a
\* limiter that has had the same is_allowed calls and no cleanup at all.
C40_CleanupTransparent ==
    last.kind = "is_allowed" =>
       last.unswept = <<last.allowed, last.remaining, last.reset_time>>

\* is_allowed has just answered on a limiter from which a sweep has removed
\* an identifier that the limiter without sweeps still holds
C40_Witness ==
    /\ last.kind = "is_allowed"
    /\ DOMAIN rl.requests # DOMAIN unswept.requests
    /\ last.at > 2 * rl.window_seconds

----------------------------------------------------------------------------
(* Claims on the limiter's mapping in the running gateway, checked under    *)
(* SpecRLApp                                                                *)

\* identifier i has an entry and its newest timestamp is more than
\* 2 * window_seconds old
IdleEntry(i) ==
    /\ i \in DOMAIN rl.requests
    /\ rl.requests[i][Len(rl.requests[i])] < now - 2 * rl.window_seconds

\* C21: every identifier that has been idle for longer than
\* 2 * window_seconds is eventually removed from the mapping, by a sweep
\* that runs whatever the request path does: no entry stays in the mapping
\* idle for ever (it is removed, unless its identifier asks again first).
C21_IdleIdentifierSwept ==
    \A i \in RLIdentifiers : IdleEntry(i) ~> ~IdleEntry(i)

----------------------------------------------------------------------------
(* Claims on the gateway's handlers, checked under Spec *)

\* this step is the backend's answer reaching thread t
ReplyStep(t) == req[t].stage = "calling" /\ req'[t].stage # "calling"

\* ... and that answer is HTTP 404
NotFoundStep(t) ==
    /\ ReplyStep(t)
    /\ last'.kind = "response"
    /\ last'.reply = HttpReply(404)

\* C7 as stated: a backend 404 changes none of failure_count, total_failures
\* and last_failure_time of the breaker it went through, does not open it,
\* and reaches the client with status 404 and the backend's body.
C7_NotFoundChangesNothing ==
    [][\A t \in Threads : NotFoundStep(t) =>
         LET b == req[t].backend IN
         /\ circuit'[b].failure_count = circuit[b].failure_count
         /\ circuit'[b].total_failures = circuit[b].total_failures
         /\ circuit'[b].last_failure_time = circuit[b].last_failure_time
         /\ circuit'[b].state = "open" => circuit[b].state = "open"
         /\ last'.status = 404
         /\ last'.body = "backend json"]_vars

\* C7 amended: a backend 404 is recorded as a success. It never raises
\* failure_count, which it leaves as it was unless it is the success that
\* closes a half_open breaker (failure_count is then zeroed); it leaves
\* total_failures and last_failure_time as they were and never opens the
\* breaker. The client is sent status 404 with the backend's body, except for
\* the orders call of get_user_details, whose status is dropped: that request
\* is answered 200 with the merged body.
C7_NotFoundIsNoFailure ==
    [][\A t \in Threads : NotFoundStep(t) =>
         LET b == req[t].backend
             closes == /\ circuit[b].state = "half_open"
                       /\ circuit[b].half_open_success + 1 >= success_threshold
         IN
         /\ circuit'[b].failure_count
              = IF closes THEN 0 ELSE circuit[b].failure_count
         /\ circuit'[b].state
              = IF closes THEN "closed" ELSE circuit[b].state
         /\ circuit'[b].total_failures = circuit[b].total_failures
         /\ circuit'[b].last_failure_time = circuit[b].last_failure_time
         /\ circuit'[b].total_requests = circuit[b].total_requests
         /\ \A o \in Backends \ {b} : circuit'[o] = circuit[o]
         /\ IF req[t].route = "get_user_details" /\ b = "orders_service"
            THEN last'.status = 200 /\ last'.body = "user and orders"
            ELSE last'.status = 404 /\ last'.body = "backend json"]_vars

\* a 404 has just reached the client, and it was the success that closed a
\* breaker which failures had opened
C7_Witness ==
    /\ last.kind = "response"
    /\ last.reply = HttpReply(404)
    /\ last.status = 404 /\ last.body = "backend json"
    /\ \E b \in Backends :
         /\ circuit[b].state = "closed"
         /\ circuit[b].half_open_success = success_threshold
         /\ circuit[b].last_state_change = now
         /\ circuit[b].failure_count = 0
         /\ circuit[b].total_failures >= 3

\* C8: a backend answer 400 or 401 reaches the client with that status.
C8_ClientErrorsPassThrough ==
    (last.kind = "response" /\ last.reply.kind = "http"
        /\ last.reply.status \in {400, 401})
      => last.status = last.reply.status

\* C22: the gateway never retries. A request goes through circuit.call once
\* for its backend (get_user_details: once for the users service and then,
\* at most, once for the orders service) and each circuit.call starts the
\* backend request at most once: from "dispatch" a thread goes to "calling"
\* for the same backend or answers, from "calling" it answers or, in
\* get_user_details after the users call, goes on to the orders service; it
\* never comes back to a backend it has called. A breaker's total_requests
\* grows only by one, in the step that takes a request into circuit.call.
C22_NoRetry ==
    [][/\ \A t \in Threads :
            /\ (req[t].stage = "dispatch" /\ req'[t] # req[t])
                  => \/ req'[t] = Idle
                     \/ req'[t] = [req[t] EXCEPT !.stage = "calling"]
            /\ (req[t].stage = "calling" /\ req'[t] # req[t])
                  => \/ req'[t] = Idle
                     \/ /\ req[t].route = "get_user_details"
                        /\ req[t].backend = "users_service"
                        /\ req'[t] = [req[t] EXCEPT
                                        !.stage = "dispatch",
                                        !.backend = "orders_service"]
       /\ \A b \in Backends :
            circuit'[b].total_requests # circuit[b].total_requests
              => /\ circuit'[b].total_requests = circuit[b].total_requests + 1
                 /\ \E t \in Threads :
                      /\ req[t].stage = "dispatch" /\ req[t].backend = b
                      /\ req'[t].stage # "dispatch"]_vars

\* the first request is a get_user_details whose orders call timed out: it is
\* answered 503 and each breaker has seen one call
C22_Witness ==
    /\ last.kind = "response" /\ last.status = 503
    /\ last.reply = NoAnswer("Timeout")
    /\ circuit["users_service"].total_requests = 1
    /\ circuit["users_service"].success_count = 1
    /\ circuit["orders_service"].total_requests = 1
    /\ circuit["orders_service"].failure_count = 1
    /\ \A t \in Threads : req[t] = Idle

\* the backends that the handler of route calls
BackendsOf(route) ==
    IF route \in {"register", "login", "get_user"} THEN {"users_service"}
    ELSE IF route = "get_user_details"
         THEN {"users_service", "orders_service"}
         ELSE {"orders_service"}

\* C38: the two breakers are isolated. A step of a request changes no field
\* of a breaker other than the one of the backend it is calling, which is a
\* backend of its route, and nothing else changes a breaker; a request that
\* reaches circuit.call of a breaker that is not open is admitted, whatever
\* the state of the other breaker.
C38_BreakersIsolated ==
    [][/\ \A t \in Threads :
            (req[t].stage \in {"dispatch", "calling"} /\ req'[t] # req[t])
              => /\ req[t].backend \in BackendsOf(req[t].route)
                 /\ \A b \in Backends \ {req[t].backend} :
                       circuit'[b] = circuit[b]
                 /\ (req[t].stage = "dispatch"
                        /\ circuit[req[t].backend].state # "open")
                      => req'[t].stage = "calling"
       /\ \A b \in Backends :
            circuit'[b] # circuit[b]
              => \E t \in Threads :
                    /\ req[t].stage \in {"dispatch", "calling"}
                    /\ req[t].backend = b
                    /\ req'[t] # req[t]]_vars

\* the users breaker is open and an orders request has just been answered by
\* its backend; the orders breaker has seen that one call and no failure
C38_Witness ==
    /\ last.kind = "response" /\ last.status = 200
    /\ last.reply = HttpReply(200)
    /\ circuit["users_service"].state = "open"
    /\ circuit["orders_service"].state = "closed"
    /\ circuit["orders_service"].total_requests = 1
    /\ circuit["orders_service"].success_count = 1
    /\ circuit["orders_service"].total_failures = 0

\* C28: a backend answer 400, 401 or 403 is not a breaker failure: the step
\* that takes such an answer leaves failure_count and total_failures of the
\* breaker it went through as they were and does not open that breaker.
C28_ClientErrorsAreNoFailure ==
    [][\A t \in Threads :
         (/\ ReplyStep(t)
          /\ last'.kind \in {"response", "proceed"}
          /\ last'.reply.kind = "http"
          /\ last'.reply.status \in {400, 401, 403})
         => LET b == req[t].backend IN
            /\ circuit'[b].failure_count = circuit[b].failure_count
            /\ circuit'[b].total_failures = circuit[b].total_failures
            /\ circuit'[b].state # "open"]_vars

\* C12: a request that the limiter of its route rejects is answered 429 with
\* a retry_after value, and that is all that happens: both breakers are
\* exactly as they were and no thread has gone on to a breaker or a backend.
C12_RejectionTouchesNoBreaker ==
    [][(last'.kind = "response" /\ last'.status = 429 /\ now' = now) =>
         /\ circuit' = circuit
         /\ req' = req
         /\ last'.reply = NoReply
         /\ last'.body = "RATE_LIMIT_EXCEEDED"
         /\ last'.retry_after \in 0..limiter_window]_vars

\* a request has just been rejected, some time after the requests that used
\* up the quota had gone through the users breaker
C12_Witness ==
    /\ last.kind = "response" /\ last.status = 429
    /\ last.retry_after < limiter_window
    /\ circuit["users_service"].total_requests = AuthQuota
    /\ \A t \in Threads : req[t].stage = "idle"

\* C13: authentication comes first. A 401 leaves the limiters, the breakers
\* and the requests under way as they were; a request for a route decorated
\* with require_auth gets past the decorators only with a valid credential;
\* and order_creation_limiter is only ever consulted for an authenticated
\* user.
C13_AuthBeforeLimiterAndBreaker ==
    [][/\ (last'.kind = "response" /\ last'.status = 401 /\ now' = now)
            => UNCHANGED <<limiter, circuit, req>>
       /\ \A t \in Threads :
            (req'[t].stage # "idle" /\ RequiresAuth(req'[t].route))
               => req'[t].credential = "valid"
       /\ \A i \in DOMAIN limiter'["order_creation"].requests :
            i[1] = "user"]_vars

\* C14: on every route, a call rejected by the open breaker and a backend
\* that fails (no answer, timeout, 5xx) are answered alike, with status 503
\* and the SERVICE_UNAVAILABLE envelope.
C14_UniformUnavailable ==
    [][\A t \in Threads :
         (\/ req[t].stage = "dispatch" /\ req'[t].stage = "idle"
          \/ /\ req[t].stage = "calling" /\ req'[t].stage = "idle"
             /\ last'.kind = "response"
             /\ last'.reply \in {HttpReply(500), NoAnswer("ConnectionError"),
                                 NoAnswer("Timeout")})
           => /\ last'.status = 503
              /\ last'.body = "SERVICE_UNAVAILABLE"]_vars

\* this step is taken by the request of thread t, which is get_user_details
\* at its users call
UsersPhase(t) ==
    /\ req[t].route = "get_user_details"
    /\ req[t].backend = "users_service"
    /\ req'[t] # req[t]

\* ... at its orders call
OrdersPhase(t) ==
    /\ req[t].route = "get_user_details"
    /\ req[t].backend = "orders_service"
    /\ req'[t] # req[t]

\* C15: in get_user_details no step of the users call touches the orders
\* breaker; the request goes on to the orders call only when the users call
\* was admitted and its backend answered successfully with a status other
\* than 404; when the users breaker rejects the call, the users backend fails
\* or answers 404, the request is over (answered 503 or 404) without an
\* orders call.
C15_OrdersOnlyAfterUsers ==
    [][\A t \in Threads : UsersPhase(t) =>
         /\ circuit'["orders_service"] = circuit["orders_service"]
         /\ req'[t].backend = "orders_service" =>
              /\ req[t].stage = "calling"
              /\ req'[t].stage = "dispatch"
              /\ last'.kind = "proceed"
              /\ last'.reply.kind = "http"
              /\ last'.reply.status < 400
              /\ circuit'["users_service"].total_failures
                   = circuit["users_service"].total_failures
         /\ req'[t].backend # "orders_service" =>
              \/ req[t].stage = "dispatch" /\ req'[t].stage = "calling"
              \/ /\ req'[t] = Idle
                 /\ last'.kind = "response"
                 /\ last'.status \in {404, 503}
                 /\ (last'.status = 404) <=> (last'.reply = HttpReply(404))]_vars

\* the users call has just succeeded and the request is about to make its
\* orders call, the first call the orders breaker will see
C15_Witness ==
    /\ last.kind = "proceed"
    /\ circuit["users_service"].success_count >= 1
    /\ circuit["orders_service"].total_requests = 0
    /\ \E t \in Threads :
         /\ req[t].route = "get_user_details"
         /\ req[t].stage = "dispatch"
         /\ req[t].backend = "orders_service"

\* C16: in get_user_details, after a successful users call, an orders call
\* that the open orders breaker rejects or whose backend fails ends the
\* request with 503 and the SERVICE_UNAVAILABLE envelope, nothing of the user
\* in it; the merged answer is sent only when the orders call succeeded too.
C16_NoPartialResult ==
    [][\A t \in Threads : OrdersPhase(t) =>
         IF req[t].stage = "dispatch"
         THEN \/ req'[t].stage = "calling"
              \/ /\ req'[t] = Idle
                 /\ last'.kind = "response"
                 /\ last'.status = 503
                 /\ last'.body = "SERVICE_UNAVAILABLE"
         ELSE /\ req'[t] = Idle
              /\ last'.kind = "response"
              /\ IF circuit'["orders_service"].total_failures
                      > circuit["orders_service"].total_failures
                 THEN /\ last'.status = 503
                      /\ last'.body = "SERVICE_UNAVAILABLE"
                 ELSE /\ last'.status = 200
                      /\ last'.body = "user and orders"]_vars

\* get_user_details has just been answered 503 because its orders call timed
\* out, the users call before it having succeeded
C16_Witness ==
    /\ last.kind = "response" /\ last.status = 503
    /\ last.message = "Service temporarily unavailable"
    /\ last.reply = NoAnswer("Timeout")
    /\ circuit["users_service"].total_failures = 0
    /\ circuit["users_service"].success_count >= 1
    /\ circuit["orders_service"].total_failures >= 1

====
